---- MODULE Spec2Model ----
(***************************************************************************)
(* Model of check_activity.py: the selection-and-timed-dispatch pipeline.  *)
(*                                                                         *)
(*   get_active_players -> choose_winner_pool -> pick_winners              *)
(*     -> assign_random_times -> send_with_sleep                           *)
(*                                                                         *)
(* Every function is an operator (or, where it draws at random or blocks   *)
(* on the clock, a group of actions) translated from the Python source.    *)
(* Names are strings; a player record is {name, from, to, delta}; a time   *)
(* string "HH:MM" is the pair <<HH, MM>> that the f-string formats and     *)
(* that split(":") / int parses back.                                      *)
(***************************************************************************)
EXTENDS Integers, Sequences, FiniteSets, TLC

VARIABLES
    pc,                \* the stage the run is at
    run,               \* number of the current run (1, 2, ...)
    snapshot_file,     \* SNAPSHOT_PATH: [exists, data] (data: list of {name, level})
    blacklist_file,    \* BLACKLIST_PATH: [exists, data] (data: set of names)
    current_levels,    \* result of fetch_levels
    prev_levels,       \* result of load_previous_levels: [exists, levels]
    blacklist,         \* result of load_blacklist
    active,            \* result of get_active_players
    pool_size,         \* choose_winner_pool's pool_size
    pool,              \* result of choose_winner_pool
    count,             \* pick_winners' count
    winners,           \* result of pick_winners
    window,            \* [start_hour, end_hour, min_gap_minutes]
    assigned,          \* assign_random_times: list of {minutes, player}
    player_idx,        \* assign_random_times: index of the winner being placed
    attempts,          \* assign_random_times: draws already made for him
    warned,            \* assign_random_times: the [WARN] line was printed
    assignments,       \* result of assign_random_times
    schedule,          \* send_with_sleep: sorted list of <<send_dt, a>>
    pos,               \* send_with_sleep: index in schedule of the loop
    now,               \* the clock, minutes since today's midnight (UTC)
    delay,             \* send_with_sleep: delay computed for schedule[pos]
    slept,             \* send_with_sleep: what time.sleep was asked for schedule[pos]
    sent_successfully, \* send_with_sleep: names sent to so far
    log,               \* delivery attempts made by send_with_sleep, in order
    sent               \* result of send_with_sleep

vars == <<pc, run, snapshot_file, blacklist_file, current_levels, prev_levels,
          blacklist, active, pool_size, pool, count, winners, window, assigned,
          player_idx, attempts, warned, assignments, schedule, pos, now, delay,
          slept, sent_successfully, log, sent>>

---------------------------------------------------------------------------
(* Bounds of the model                                                     *)

Names == {"A", "B", "C"}

\* levels are 0 .. MaxLevel
MaxLevel == 2
\* longest list of levels / active players / candidates handed to a pure stage
MaxActive == 3
\* pool_size ranges over 0 .. MaxPoolSize
MaxPoolSize == 3
\* count ranges over 0 .. MaxCount
MaxCount == 3
\* longest list of winners handed to assign_random_times
MaxWinners == 3
\* draws per winner; stands for range(1000), see DrawBudget
MaxAttempts == 2
\* longest batch handed to send_with_sleep
MaxBatch == 2
\* a delivery takes 0 .. MaxSendMinutes minutes
MaxSendMinutes == 1
\* time.sleep returns 0 .. MaxOversleep minutes after the time asked for
MaxOversleep == 1
\* runs of the whole pipeline
MaxRuns == 2

Levels == 0..MaxLevel

\* the sequences of length n over S without repetition
InjSeqs(S, n) == {s \in [1..n -> S] : \A i, j \in 1..n : i # j => s[i] # s[j]}

\* the sequences of length <= n of records with pairwise distinct names
DistinctNameSeqs(R, n) ==
    UNION {{s \in [1..k -> R] : \A i, j \in 1..k : i # j => s[i].name # s[j].name}
           : k \in 0..n}

Range(s) == {s[i] : i \in 1..Len(s)}

NamesOf(s) == {s[i].name : i \in 1..Len(s)}

Min(a, b) == IF a < b THEN a ELSE b

Abs(a) == IF a < 0 THEN -a ELSE a

---------------------------------------------------------------------------
(* get_active_players                                                      *)

LevelEntries == [name : Names, level : Levels]

NoSnapshot == [exists |-> FALSE, levels |-> <<>>]

\* a comparison that lets an unchanged level through
ImprovedOrEqual(lvl_today, lvl_prev) == lvl_today >= lvl_prev

\* line 154: if lvl_today > lvl_prev
Improved(lvl_today, lvl_prev) == lvl_today > lvl_prev

\* lines 145-160: the loop over current_levels
RECURSIVE ActiveLoop(_, _)
ActiveLoop(prev, cur) ==
    IF cur = <<>> THEN <<>>
    ELSE LET m == Head(cur)
             rest == ActiveLoop(prev, Tail(cur))
         IN  IF m.name \notin DOMAIN prev THEN rest
             ELSE IF Improved(m.level, prev[m.name])
                  THEN <<[name |-> m.name, from |-> prev[m.name], to |-> m.level,
                          delta |-> m.level - prev[m.name]]>> \o rest
                  ELSE rest

get_active_players(prev, cur) ==
    IF ~prev.exists THEN <<>> ELSE ActiveLoop(prev.levels, cur)

---------------------------------------------------------------------------
(* choose_winner_pool                                                      *)

ActivityRecords ==
    {r \in [name : Names, from : Levels, to : Levels, delta : 1..MaxLevel] :
        r.delta = r.to - r.from}

\* a filter that keeps everybody
KeepAll(p, bl) == TRUE

\* line 178: the filter p["name"] not in blacklist
NotBlacklisted(p, bl) == p.name \notin bl

\* sorted(..., key=delta, reverse=True) is stable: x goes before the first
\* element whose delta is smaller than x's
RECURSIVE InsertByDeltaDesc(_, _)
InsertByDeltaDesc(s, x) ==
    IF s = <<>> THEN <<x>>
    ELSE IF Head(s).delta < x.delta THEN <<x>> \o s
         ELSE <<Head(s)>> \o InsertByDeltaDesc(Tail(s), x)

RECURSIVE SortByDeltaDesc(_)
SortByDeltaDesc(s) ==
    IF s = <<>> THEN <<>>
    ELSE InsertByDeltaDesc(SortByDeltaDesc(SubSeq(s, 1, Len(s) - 1)), s[Len(s)])

\* line 186: the slice s[:n]
SliceTo(s, n) ==
    IF n >= 0 THEN SubSeq(s, 1, Min(n, Len(s)))
    ELSE SubSeq(s, 1, IF Len(s) + n > 0 THEN Len(s) + n ELSE 0)

choose_winner_pool(active_players, bl, size) ==
    LET filtered == SelectSeq(active_players, LAMBDA p : NotBlacklisted(p, bl))
    IN  IF filtered = <<>> THEN <<>>
        ELSE SliceTo(SortByDeltaDesc(filtered), size)

---------------------------------------------------------------------------
(* pick_winners                                                            *)

\* a draw with replacement (random.choices)
SampleWithReplacement(len, k) == [1..k -> 1..len]

\* line 203: random.sample draws k positions of the population without
\* replacement; every order of every k positions is a possible outcome
SamplePositions(len, k) == InjSeqs(1..len, k)

\* the possible results of pick_winners(candidates, cnt)
pick_winners(candidates, cnt) ==
    IF candidates = <<>> THEN {<<>>}
    ELSE LET n == Min(cnt, Len(candidates))
         IN  {[i \in 1..n |-> candidates[p[i]]] : p \in SamplePositions(Len(candidates), n)}

---------------------------------------------------------------------------
(* assign_random_times                                                     *)

\* lines 221-222: start_hour * 60, end_hour * 60
MinutesPerHour == 60

start_min == window.start_hour * MinutesPerHour

end_min == window.end_hour * MinutesPerHour

\* line 229: the values random.randint(start_min, end_min) can return
Candidates == start_min..end_min

\* line 228: range(1000). Which results the loop can produce does not depend
\* on the budget as long as it is at least 1 (a rejected value can be drawn
\* again), so the model runs it with MaxAttempts draws.
DrawBudget == MaxAttempts

\* a check against the time assigned last only
GapOkLastOnly(candidate, asg, gap) ==
    IF asg = <<>> THEN TRUE ELSE Abs(candidate - asg[Len(asg)].minutes) >= gap

\* line 231: all(abs(candidate - item["minutes"]) >= min_gap_minutes ...)
GapOk(candidate, asg, gap) ==
    \A i \in 1..Len(asg) : Abs(candidate - asg[i].minutes) >= gap

\* line 240: list.sort(key=minutes) is stable
RECURSIVE InsertByMinutes(_, _)
InsertByMinutes(s, x) ==
    IF s = <<>> THEN <<x>>
    ELSE IF Head(s).minutes > x.minutes THEN <<x>> \o s
         ELSE <<Head(s)>> \o InsertByMinutes(Tail(s), x)

RECURSIVE SortByMinutes(_)
SortByMinutes(s) ==
    IF s = <<>> THEN <<>>
    ELSE InsertByMinutes(SortByMinutes(SubSeq(s, 1, Len(s) - 1)), s[Len(s)])

\* lines 245-246: divmod(minutes, 60) and f"{hour:02d}:{minute:02d}"
FormatTime(minutes) == <<minutes \div MinutesPerHour, minutes % MinutesPerHour>>

\* lines 240-255: sort, then build the result list
AssignResult(asg) ==
    LET srt == SortByMinutes(asg)
    IN  [i \in 1..Len(srt) |->
            [name |-> srt[i].player.name, from |-> srt[i].player.from,
             to |-> srt[i].player.to, delta |-> srt[i].player.delta,
             time |-> FormatTime(srt[i].minutes)]]

---------------------------------------------------------------------------
(* send_with_sleep                                                         *)

\* lines 331-338: hour, minute = map(int, time.split(":")); datetime(today, hour,
\* minute), as minutes since today's midnight
SendDt(time) == time[1] * MinutesPerHour + time[2]

\* line 342: schedule.sort(key=send_dt) is stable
RECURSIVE InsertBySendDt(_, _)
InsertBySendDt(s, x) ==
    IF s = <<>> THEN <<x>>
    ELSE IF Head(s).send_dt > x.send_dt THEN <<x>> \o s
         ELSE <<Head(s)>> \o InsertBySendDt(Tail(s), x)

RECURSIVE SortBySendDt(_)
SortBySendDt(s) ==
    IF s = <<>> THEN <<>>
    ELSE InsertBySendDt(SortBySendDt(SubSeq(s, 1, Len(s) - 1)), s[Len(s)])

\* a schedule left in the order of the input
NoSort(s) == s

\* line 342
ScheduleOrder(s) == SortBySendDt(s)

\* lines 329-342
BuildSchedule(asgs) ==
    ScheduleOrder([i \in 1..Len(asgs) |-> [send_dt |-> SendDt(asgs[i].time), a |-> asgs[i]]])

\* a scheduler that never waits
NeverSleep(d) == FALSE

\* line 349: if delay > 0
ShouldSleep(d) == d > 0

\* a success set that takes the name whatever the outcome
SentAlways(s, name, ok) == s \cup {name}

\* line 366: sent_successfully.add(name) after a send that did not raise;
\* lines 368-369: the except branch adds nothing
SentAfter(s, name, ok) == IF ok THEN s \cup {name} ELSE s

\* an exception that ends the loop
AbortBatch(p, n) == n + 1

\* lines 368-369: the exception is caught and the for loop goes on
AfterFailure(p, n) == p + 1

---------------------------------------------------------------------------
(* The stages in the order the data flows through them                     *)

NextStage(stage) ==
    CASE stage = "fetch"     -> "load_prev"
      [] stage = "load_prev" -> "load_bl"
      [] stage = "load_bl"   -> "diff"
      [] stage = "diff"      -> "pool"
      [] stage = "pool"      -> "pick"
      [] stage = "pick"      -> "assign"
      [] stage = "assign"    -> "send"
      [] stage = "send"      -> "save"
      [] stage = "save"      -> "fetch"

\* the state in which a run is at `stage` with the given files, inputs and
\* earlier results, and every local of a later stage at its initial value
Start(stage, snap, blf, cur, prev, bl, act, psize, pl, cnt, win, wnd, asgs) ==
    /\ pc = stage
    /\ run = 1
    /\ snapshot_file = snap
    /\ blacklist_file = blf
    /\ current_levels = cur
    /\ prev_levels = prev
    /\ blacklist = bl
    /\ active = act
    /\ pool_size = psize
    /\ pool = pl
    /\ count = cnt
    /\ winners = win
    /\ window = wnd
    /\ assigned = <<>>
    /\ player_idx = 1
    /\ attempts = 0
    /\ warned = FALSE
    /\ assignments = asgs
    /\ schedule = <<>>
    /\ pos = 1
    /\ now = 0
    /\ delay = 0
    /\ slept = 0
    /\ sent_successfully = {}
    /\ log = <<>>
    /\ sent = {}

NoFile == [exists |-> FALSE, data |-> <<>>]

NoBlacklistFile == [exists |-> FALSE, data |-> {}]

\* the window of the defaults' shape: hours and a gap in minutes
Window(s, e, g) == [start_hour |-> s, end_hour |-> e, min_gap_minutes |-> g]

---------------------------------------------------------------------------
(* fetch_levels, load_previous_levels, load_blacklist, save_today_levels   *)

\* what the fetcher can return in a pipeline run
PipelineRoster == {"A", "B"}

FetchLists == DistinctNameSeqs([name : PipelineRoster, level : Levels], MaxActive)

\* lines 56-65: the list of {name, level} built from the fetcher's output
FetchLevels ==
    /\ pc = "fetch"
    /\ run <= MaxRuns
    /\ \E levels \in FetchLists : current_levels' = levels
    /\ pc' = NextStage("fetch")
    /\ UNCHANGED <<run, snapshot_file, blacklist_file, prev_levels, blacklist, active,
                   pool_size, pool, count, winners, window, assigned, player_idx,
                   attempts, warned, assignments, schedule, pos, now, delay, slept,
                   sent_successfully, log, sent>>

\* lines 83-89: prev[name] = level for every item of the file
SnapshotDict(data) ==
    [n \in NamesOf(data) |->
        LET last == CHOOSE i \in 1..Len(data) :
                        /\ data[i].name = n
                        /\ \A j \in (i + 1)..Len(data) : data[j].name # n
        IN  data[last].level]

\* lines 76-92
load_previous_levels(file) ==
    IF ~file.exists THEN NoSnapshot
    ELSE [exists |-> TRUE, levels |-> SnapshotDict(file.data)]

LoadPreviousLevels ==
    /\ pc = "load_prev"
    /\ prev_levels' = load_previous_levels(snapshot_file)
    /\ pc' = NextStage("load_prev")
    /\ UNCHANGED <<run, snapshot_file, blacklist_file, current_levels, blacklist, active,
                   pool_size, pool, count, winners, window, assigned, player_idx,
                   attempts, warned, assignments, schedule, pos, now, delay, slept,
                   sent_successfully, log, sent>>

\* lines 110-119
load_blacklist(file) == IF ~file.exists THEN {} ELSE file.data

LoadBlacklist ==
    /\ pc = "load_bl"
    /\ blacklist' = load_blacklist(blacklist_file)
    /\ pc' = NextStage("load_bl")
    /\ UNCHANGED <<run, snapshot_file, blacklist_file, current_levels, prev_levels, active,
                   pool_size, pool, count, winners, window, assigned, player_idx,
                   attempts, warned, assignments, schedule, pos, now, delay, slept,
                   sent_successfully, log, sent>>

\* lines 95-100: the snapshot file is overwritten with today's levels; the run
\* ends and the next one starts with fresh locals
SaveTodayLevels ==
    /\ pc = "save"
    /\ snapshot_file' = [exists |-> TRUE, data |-> current_levels]
    /\ run' = run + 1
    /\ pc' = NextStage("save")
    /\ log' = <<>>
    /\ warned' = FALSE
    /\ now' = 0
    /\ UNCHANGED <<blacklist_file, current_levels, prev_levels, blacklist, active,
                   pool_size, pool, count, winners, window, assigned, player_idx,
                   attempts, assignments, schedule, pos, delay, slept,
                   sent_successfully, sent>>

---------------------------------------------------------------------------
(* The pure stages as actions                                              *)

GetActivePlayers ==
    /\ pc = "diff"
    /\ active' = get_active_players(prev_levels, current_levels)
    /\ pc' = NextStage("diff")
    /\ UNCHANGED <<run, snapshot_file, blacklist_file, current_levels, prev_levels,
                   blacklist, pool_size, pool, count, winners, window, assigned,
                   player_idx, attempts, warned, assignments, schedule, pos, now, delay,
                   slept, sent_successfully, log, sent>>

ChooseWinnerPool ==
    /\ pc = "pool"
    /\ pool' = choose_winner_pool(active, blacklist, pool_size)
    /\ pc' = NextStage("pool")
    /\ UNCHANGED <<run, snapshot_file, blacklist_file, current_levels, prev_levels,
                   blacklist, active, pool_size, count, winners, window, assigned,
                   player_idx, attempts, warned, assignments, schedule, pos, now, delay,
                   slept, sent_successfully, log, sent>>

PickWinners ==
    /\ pc = "pick"
    /\ \E w \in pick_winners(pool, count) : winners' = w
    /\ pc' = NextStage("pick")
    /\ UNCHANGED <<run, snapshot_file, blacklist_file, current_levels, prev_levels,
                   blacklist, active, pool_size, pool, count, window, assigned,
                   player_idx, attempts, warned, assignments, schedule, pos, now, delay,
                   slept, sent_successfully, log, sent>>

---------------------------------------------------------------------------
(* assign_random_times as actions: one per draw of the inner loop; the draw *)
(* that ends the outer loop also sorts, formats and returns                *)

\* a continue in place of the break: the next winner is tried
ContinueWithNext(idx, n) == idx + 1

\* lines 234-237: the for-else prints the warning and breaks out of the loop
\* over the winners, so no later winner is processed
AfterExhaustion(idx, n) == n + 1

\* lines 240-261: the return, with the locals gone
ReturnAssignments(asg, w) ==
    /\ assignments' = AssignResult(asg)
    /\ warned' = w
    /\ assigned' = <<>>
    /\ player_idx' = 1
    /\ attempts' = 0
    /\ pc' = NextStage("assign")

\* lines 226-233 going on with winner idx
GoOnWith(asg, idx, w) ==
    IF idx > Len(winners)
    THEN ReturnAssignments(asg, w)
    ELSE /\ assigned' = asg
         /\ player_idx' = idx
         /\ attempts' = 0
         /\ warned' = w
         /\ UNCHANGED <<assignments, pc>>

\* lines 218-219: if not winners: return []
AssignNothing ==
    /\ pc = "assign"
    /\ winners = <<>>
    /\ assignments' = <<>>
    /\ pc' = NextStage("assign")
    /\ UNCHANGED <<run, snapshot_file, blacklist_file, current_levels, prev_levels,
                   blacklist, active, pool_size, pool, count, winners, window, assigned,
                   player_idx, attempts, warned, schedule, pos, now, delay, slept,
                   sent_successfully, log, sent>>

\* lines 229-233: a draw that keeps the gap is appended; on to the next winner
DrawAccept ==
    /\ pc = "assign"
    /\ winners # <<>>
    /\ \E candidate \in Candidates :
          /\ GapOk(candidate, assigned, window.min_gap_minutes)
          /\ GoOnWith(Append(assigned, [minutes |-> candidate,
                                        player |-> winners[player_idx]]),
                      player_idx + 1, warned)
    /\ UNCHANGED <<run, snapshot_file, blacklist_file, current_levels, prev_levels,
                   blacklist, active, pool_size, pool, count, winners, window, schedule,
                   pos, now, delay, slept, sent_successfully, log, sent>>

\* lines 228-231: a draw that breaks the gap, with draws left
DrawReject ==
    /\ pc = "assign"
    /\ winners # <<>>
    /\ attempts + 1 < DrawBudget
    /\ \E candidate \in Candidates : ~GapOk(candidate, assigned, window.min_gap_minutes)
    /\ attempts' = attempts + 1
    /\ UNCHANGED <<pc, run, snapshot_file, blacklist_file, current_levels, prev_levels,
                   blacklist, active, pool_size, pool, count, winners, window, assigned,
                   player_idx, warned, assignments, schedule, pos, now, delay, slept,
                   sent_successfully, log, sent>>

\* lines 234-237: the last draw of the budget breaks the gap too
DrawExhaust ==
    /\ pc = "assign"
    /\ winners # <<>>
    /\ attempts + 1 >= DrawBudget
    /\ \E candidate \in Candidates : ~GapOk(candidate, assigned, window.min_gap_minutes)
    /\ GoOnWith(assigned, AfterExhaustion(player_idx, Len(winners)), TRUE)
    /\ UNCHANGED <<run, snapshot_file, blacklist_file, current_levels, prev_levels,
                   blacklist, active, pool_size, pool, count, winners, window, schedule,
                   pos, now, delay, slept, sent_successfully, log, sent>>

---------------------------------------------------------------------------
(* send_with_sleep as actions: the steps between the points where it blocks *)
(* (time.sleep, subprocess.run)                                            *)

\* the clock when send_with_sleep is called
StartClocks == {719, 750, 781}

\* lines 320-322: if not assignments: return set()
SendNothing ==
    /\ pc = "send"
    /\ assignments = <<>>
    /\ sent' = {}
    /\ pc' = NextStage("send")
    /\ UNCHANGED <<run, snapshot_file, blacklist_file, current_levels, prev_levels,
                   blacklist, active, pool_size, pool, count, winners, window, assigned,
                   player_idx, attempts, warned, assignments, schedule, pos, now, delay,
                   slept, sent_successfully, log>>

\* lines 324-344: the schedule is built and sorted
SendBegin ==
    /\ pc = "send"
    /\ assignments # <<>>
    /\ sent_successfully' = {}
    /\ schedule' = BuildSchedule(assignments)
    /\ pos' = 1
    /\ \E t \in StartClocks : now' = t
    /\ pc' = "loop"
    /\ UNCHANGED <<run, snapshot_file, blacklist_file, current_levels, prev_levels,
                   blacklist, active, pool_size, pool, count, winners, window, assigned,
                   player_idx, attempts, warned, assignments, delay, slept, log, sent>>

\* lines 346-354: the scheduled time is ahead: time.sleep(delay) is called
ReachEarly ==
    /\ pc = "loop"
    /\ ShouldSleep(schedule[pos].send_dt - now)
    /\ delay' = schedule[pos].send_dt - now
    /\ slept' = delay'
    /\ pc' = "sleep"
    /\ UNCHANGED <<run, snapshot_file, blacklist_file, current_levels, prev_levels,
                   blacklist, active, pool_size, pool, count, winners, window, assigned,
                   player_idx, attempts, warned, assignments, schedule, pos, now,
                   sent_successfully, log, sent>>

\* lines 346-361: the scheduled time has passed: no sleep
ReachLate ==
    /\ pc = "loop"
    /\ ~ShouldSleep(schedule[pos].send_dt - now)
    /\ delay' = schedule[pos].send_dt - now
    /\ slept' = 0
    /\ pc' = "deliver"
    /\ UNCHANGED <<run, snapshot_file, blacklist_file, current_levels, prev_levels,
                   blacklist, active, pool_size, pool, count, winners, window, assigned,
                   player_idx, attempts, warned, assignments, schedule, pos, now,
                   sent_successfully, log, sent>>

\* line 354: time.sleep returns once the time asked for has passed, or later
Wake ==
    /\ pc = "sleep"
    /\ \E over \in 0..MaxOversleep : now' = now + slept + over
    /\ pc' = "deliver"
    /\ UNCHANGED <<run, snapshot_file, blacklist_file, current_levels, prev_levels,
                   blacklist, active, pool_size, pool, count, winners, window, assigned,
                   player_idx, attempts, warned, assignments, schedule, pos, delay,
                   slept, sent_successfully, log, sent>>

\* lines 363-365: send_sf_message is called and subprocess.run starts
SendStart ==
    /\ pc = "deliver"
    /\ log' = Append(log, [name |-> schedule[pos].a.name,
                           send_dt |-> schedule[pos].send_dt,
                           reached |-> schedule[pos].send_dt - delay,
                           slept |-> slept,
                           at |-> now,
                           result |-> "InProgress"])
    /\ pc' = "sending"
    /\ UNCHANGED <<run, snapshot_file, blacklist_file, current_levels, prev_levels,
                   blacklist, active, pool_size, pool, count, winners, window, assigned,
                   player_idx, attempts, warned, assignments, schedule, pos, now, delay,
                   slept, sent_successfully, sent>>

\* lines 345, 371-372: the next assignment of the schedule, or the return
\* with the locals gone
Proceed(nextpos, s) ==
    IF nextpos <= Len(schedule)
    THEN /\ pos' = nextpos
         /\ sent_successfully' = s
         /\ pc' = "loop"
         /\ UNCHANGED <<schedule, delay, slept, sent>>
    ELSE /\ sent' = s
         /\ sent_successfully' = {}
         /\ schedule' = <<>>
         /\ pos' = 1
         /\ delay' = 0
         /\ slept' = 0
         /\ pc' = NextStage("send")

\* a successful send that also puts the name on the blacklist
SendOkBlacklisting ==
    /\ pc = "sending"
    /\ \E d \in 0..MaxSendMinutes : now' = now + d
    /\ log' = [log EXCEPT ![Len(log)].result = "Sent"]
    /\ Proceed(pos + 1, SentAfter(sent_successfully, schedule[pos].a.name, TRUE))
    /\ blacklist' = blacklist \cup {schedule[pos].a.name}
    /\ UNCHANGED <<run, snapshot_file, blacklist_file, current_levels, prev_levels,
                   active, pool_size, pool, count, winners, window, assigned,
                   player_idx, attempts, warned, assignments>>

\* lines 274-286, 366-367: the mailer exits 0
SendOk ==
    /\ pc = "sending"
    /\ \E d \in 0..MaxSendMinutes : now' = now + d
    /\ log' = [log EXCEPT ![Len(log)].result = "Sent"]
    /\ Proceed(pos + 1, SentAfter(sent_successfully, schedule[pos].a.name, TRUE))
    /\ UNCHANGED <<run, snapshot_file, blacklist_file, current_levels, prev_levels,
                   blacklist, active, pool_size, pool, count, winners, window, assigned,
                   player_idx, attempts, warned, assignments>>

\* lines 268-286, 368-369: the binary is missing or exits non-zero; the
\* exception is caught
SendFail ==
    /\ pc = "sending"
    /\ \E d \in 0..MaxSendMinutes : now' = now + d
    /\ log' = [log EXCEPT ![Len(log)].result = "Failed"]
    /\ Proceed(AfterFailure(pos, Len(schedule)),
               SentAfter(sent_successfully, schedule[pos].a.name, FALSE))
    /\ UNCHANGED <<run, snapshot_file, blacklist_file, current_levels, prev_levels,
                   blacklist, active, pool_size, pool, count, winners, window, assigned,
                   player_idx, attempts, warned, assignments>>

---------------------------------------------------------------------------
(* Specifications                                                          *)

\* get_active_players on every previous snapshot (or none) and current list
PrevInputs ==
    {NoSnapshot} \cup
    UNION {{[exists |-> TRUE, levels |-> f] : f \in [S -> Levels]} : S \in SUBSET Names}

LevelLists == DistinctNameSeqs(LevelEntries, MaxActive)

InitDiff ==
    \E prev \in PrevInputs, cur \in LevelLists :
        Start("diff", NoFile, NoBlacklistFile, cur, prev, {}, <<>>, 0, <<>>, 0, <<>>,
              Window(12, 12, 0), <<>>)

SpecDiff == InitDiff /\ [][GetActivePlayers]_vars

\* choose_winner_pool on every list of records, blacklist and pool size
RecordLists == DistinctNameSeqs(ActivityRecords, MaxActive)

InitPool ==
    \E act \in RecordLists, bl \in SUBSET Names, psize \in 0..MaxPoolSize :
        Start("pool", NoFile, NoBlacklistFile, <<>>, NoSnapshot, bl, act, psize, <<>>, 0,
              <<>>, Window(12, 12, 0), <<>>)

SpecPool == InitPool /\ [][ChooseWinnerPool]_vars

\* pick_winners on every pool and count
InitPick ==
    \E pl \in RecordLists, cnt \in 0..MaxCount :
        Start("pick", NoFile, NoBlacklistFile, <<>>, NoSnapshot, {}, <<>>, 0, pl, cnt,
              <<>>, Window(12, 12, 0), <<>>)

SpecPick == InitPick /\ [][PickWinners]_vars

\* assign_random_times on lists of winners, for windows of one minute and of
\* one hour and gaps that fit all, some or one of them
WinnerRecord(n) == [name |-> n, from |-> 0, to |-> 1, delta |-> 1]

\* the function never reads a name, so two orders of the names stand for all
WinnerOrders == {<<"A", "B", "C", "D">>, <<"C", "A", "D", "B">>}

WinnerLists ==
    {[i \in 1..k |-> WinnerRecord(o[i])] : o \in WinnerOrders, k \in 0..Min(MaxWinners, 4)}

Windows ==
    {Window(12, 12, 0), Window(12, 12, 10), Window(12, 13, 25), Window(12, 13, 31),
     Window(12, 13, 61)}

InitAssign ==
    \E win \in WinnerLists, wnd \in Windows :
        Start("assign", NoFile, NoBlacklistFile, <<>>, NoSnapshot, {}, <<>>, 0, <<>>, 0,
              win, wnd, <<>>)

NextAssign == AssignNothing \/ DrawAccept \/ DrawReject \/ DrawExhaust

SpecAssign == InitAssign /\ [][NextAssign]_vars

\* send_with_sleep on every batch, in any order, of times around an hour's end
SendMinutes == {720, 779, 780}

SendRecords ==
    {[name |-> n, from |-> 0, to |-> 1, delta |-> 1, time |-> FormatTime(m)] :
        n \in Names, m \in SendMinutes}

Batches == DistinctNameSeqs(SendRecords, MaxBatch)

InitSend ==
    \E asgs \in Batches :
        Start("send", NoFile, NoBlacklistFile, <<>>, NoSnapshot, {}, <<>>, 0, <<>>, 0,
              <<>>, Window(12, 12, 0), asgs)

NextSend ==
    \/ SendNothing
    \/ SendBegin
    \/ ReachEarly
    \/ ReachLate
    \/ Wake
    \/ SendStart
    \/ SendOk
    \/ SendFail

SpecSend == InitSend /\ [][NextSend]_vars

\* the whole pipeline, run after run, on a one-minute window
BlacklistFiles == {NoBlacklistFile, [exists |-> TRUE, data |-> {"B"}]}

\* no snapshot yet (the first run ever), or the one an earlier run saved
SnapshotFiles ==
    {NoFile,
     [exists |-> TRUE, data |-> <<[name |-> "A", level |-> 0], [name |-> "B", level |-> 1]>>]}

Init ==
    \E snap \in SnapshotFiles, blf \in BlacklistFiles, g \in {0, 10} :
        Start("fetch", snap, blf, <<>>, NoSnapshot, {}, <<>>, MaxPoolSize, <<>>,
              MaxCount, <<>>, Window(12, 12, g), <<>>)

Next ==
    \/ FetchLevels
    \/ LoadPreviousLevels
    \/ LoadBlacklist
    \/ GetActivePlayers
    \/ ChooseWinnerPool
    \/ PickWinners
    \/ NextAssign
    \/ NextSend
    \/ SaveTodayLevels

Spec == Init /\ [][Next]_vars

---------------------------------------------------------------------------
(* Claims                                                                  *)

\* the minutes of the day a time string stands for
MinuteOf(a) == SendDt(a.time)

\* entry i of the current levels has risen since the previous snapshot
Qualifies(i) ==
    /\ prev_levels.exists
    /\ current_levels[i].name \in DOMAIN prev_levels.levels
    /\ current_levels[i].level > prev_levels.levels[current_levels[i].name]

\* C6: get_active_players returns a record for a current entry exactly when
\* there is a previous snapshot, the entry's name is one of its keys and the
\* entry's level is strictly greater than the previous one; the record has
\* from = previous level, to = current level and delta = to - from > 0; with
\* no previous snapshot the result is empty.
DiffEmitsExactlyTheRisen ==
    pc = "pool" =>
        /\ \A k \in 1..Len(active) :
              /\ prev_levels.exists
              /\ active[k].name \in DOMAIN prev_levels.levels
              /\ active[k].from = prev_levels.levels[active[k].name]
              /\ active[k].to > active[k].from
              /\ active[k].delta = active[k].to - active[k].from
              /\ active[k].delta > 0
              /\ \E i \in 1..Len(current_levels) :
                    /\ Qualifies(i)
                    /\ current_levels[i] = [name |-> active[k].name, level |-> active[k].to]
        /\ \A i \in 1..Len(current_levels) :
              Qualifies(i) => \E k \in 1..Len(active) :
                                 /\ active[k].name = current_levels[i].name
                                 /\ active[k].to = current_levels[i].level
        /\ Len(active) = Cardinality({i \in 1..Len(current_levels) : Qualifies(i)})
        /\ (~prev_levels.exists => active = <<>>)

\* a risen entry is emitted next to a new one and an unchanged one are not
DiffWitness ==
    /\ pc = "pool"
    /\ Len(active) = 1
    /\ \E i, j \in 1..Len(current_levels) :
          /\ current_levels[i].name \notin DOMAIN prev_levels.levels
          /\ current_levels[j].name \in DOMAIN prev_levels.levels
          /\ current_levels[j].level = prev_levels.levels[current_levels[j].name]

\* C7: the pool returned by choose_winner_pool holds no blacklisted name, is
\* in descending order of delta and is at most pool_size long.
PoolFilteredSortedBounded ==
    pc = "pick" =>
        /\ \A k \in 1..Len(pool) : pool[k].name \notin blacklist
        /\ \A k, l \in 1..Len(pool) : k < l => pool[k].delta >= pool[l].delta
        /\ Len(pool) <= pool_size

\* a blacklisted record is dropped, the rest is reordered and then cut
PoolWitness ==
    /\ pc = "pick"
    /\ \E i \in 1..Len(active) : active[i].name \in blacklist
    /\ \E i, j \in 1..Len(active) :
          /\ i < j
          /\ active[i].name \notin blacklist
          /\ active[j].name \notin blacklist
          /\ active[i].delta < active[j].delta
          /\ pool = <<active[j]>>
    /\ pool_size = 1

\* C8: the result of pick_winners has min(count, |pool|) records, no name
\* twice, and every record is one of the pool's; an empty pool gives an
\* empty result.
PickSizeDistinctSubset ==
    pc = "assign" =>
        /\ Len(winners) = Min(count, Len(pool))
        /\ \A i, j \in 1..Len(winners) : i # j => winners[i].name # winners[j].name
        /\ \A i \in 1..Len(winners) : winners[i] \in Range(pool)
        /\ (pool = <<>> => winners = <<>>)

\* fewer are drawn than the pool holds, and not in the pool's order
PickWitness ==
    /\ pc = "assign"
    /\ Len(pool) = 3
    /\ count = 2
    /\ winners = <<pool[3], pool[1]>>

\* C1: every time assign_random_times returns lies in
\* [start_hour * 60, end_hour * 60], every two of them differ by at least
\* min_gap_minutes, and the list is in ascending order of time.
AssignInWindowSpacedSorted ==
    pc = "send" =>
        /\ \A i \in 1..Len(assignments) :
              /\ MinuteOf(assignments[i]) >= start_min
              /\ MinuteOf(assignments[i]) <= end_min
        /\ \A i, j \in 1..Len(assignments) :
              i # j => Abs(MinuteOf(assignments[i]) - MinuteOf(assignments[j]))
                           >= window.min_gap_minutes
        /\ \A i, j \in 1..Len(assignments) :
              i < j => MinuteOf(assignments[i]) <= MinuteOf(assignments[j])

\* three winners placed 25 minutes apart, the last winner earliest
AssignWitness ==
    /\ pc = "send"
    /\ window.min_gap_minutes = 25
    /\ Len(winners) = 3
    /\ Len(assignments) = 3
    /\ assignments[1].name = winners[3].name
    /\ assignments[3].name = winners[2].name

\* the number of times the window can hold min_gap_minutes apart
Capacity ==
    IF window.min_gap_minutes <= 0 THEN Len(winners)
    ELSE (end_min - start_min) \div window.min_gap_minutes + 1

\* C2: when the gap is too large for the window to hold all winners,
\* assign_random_times still returns: it stops at the first winner whose
\* draws all break the gap, places no later one, prints the warning, and
\* returns exactly the first j winners for some j below their number.
AssignTruncatesToPrefix ==
    /\ warned => pc # "assign"
    /\ pc = "send" =>
          /\ Len(winners) > Capacity => warned
          /\ warned =>
                \E j \in 0..(Len(winners) - 1) :
                    /\ Len(assignments) = j
                    /\ NamesOf(assignments) = {winners[i].name : i \in 1..j}
          /\ ~warned => Len(assignments) = Len(winners)

\* two of three winners fit an hour 31 minutes apart; the third is given up
TruncateWitness ==
    /\ pc = "send"
    /\ window.min_gap_minutes = 31
    /\ Len(winners) = 3
    /\ Len(winners) > Capacity
    /\ warned
    /\ Len(assignments) = 2

\* the state of an assignment of the batch
Status(n) ==
    IF \E k \in 1..Len(log) : log[k].name = n
    THEN LET k == CHOOSE k \in 1..Len(log) : log[k].name = n
         IN  IF log[k].result = "InProgress" THEN "Sending" ELSE log[k].result
    ELSE IF pc \in {"sleep", "deliver"} /\ schedule[pos].a.name = n
         THEN "Waiting"
         ELSE "Scheduled"

AttemptsOf(n) == {k \in 1..Len(log) : log[k].name = n}

EachAttemptedOnce ==
    /\ \A n \in NamesOf(assignments) : Cardinality(AttemptsOf(n)) <= 1
    /\ pc = "save" =>
          \A n \in NamesOf(assignments) :
              /\ Cardinality(AttemptsOf(n)) = 1
              /\ Status(n) \in {"Sent", "Failed"}

NoRetry ==
    \A n \in NamesOf(assignments) :
        /\ Status(n) = "Failed" => Status(n)' = "Failed"
        /\ Status(n) = "Sent" => Status(n)' = "Sent"
        /\ Status(n) = "Sending" => Status(n)' \in {"Sent", "Failed"}
        /\ Status(n) = "Waiting" => Status(n)' \in {"Waiting", "Sending"}
        /\ Status(n) = "Scheduled" => Status(n)' \in {"Scheduled", "Waiting"}

\* C3: a failed delivery never ends the batch: when send_with_sleep returns,
\* every assignment has had exactly one delivery attempt, and an assignment
\* only moves Scheduled -> Waiting -> Sending -> Sent or Failed, never back.
SendNeverAborts == []EachAttemptedOnce /\ [][NoRetry]_vars

\* the first delivery failed and the second one was made and succeeded
AbortWitness ==
    /\ pc = "save"
    /\ Len(log) = 2
    /\ log[1].result = "Failed"
    /\ log[2].result = "Sent"

\* C4: the set send_with_sleep returns is a subset of the batch's names and
\* holds a name exactly when a delivery to it succeeded; a name whose
\* delivery failed is not in it, and an empty batch gives the empty set.
SuccessSetExact ==
    /\ sent_successfully \subseteq NamesOf(assignments)
    /\ pc = "save" =>
          /\ sent \subseteq NamesOf(assignments)
          /\ \A n \in Names :
                n \in sent <=> \E k \in 1..Len(log) :
                                  log[k].name = n /\ log[k].result = "Sent"
          /\ \A k \in 1..Len(log) : log[k].result = "Failed" => log[k].name \notin sent
          /\ (assignments = <<>> => sent = {})

\* of two deliveries the first succeeded and the second failed
SuccessSetWitness ==
    /\ pc = "save"
    /\ Len(log) = 2
    /\ log[1].result = "Sent"
    /\ log[2].result = "Failed"
    /\ sent = {log[1].name}

\* C5: deliveries are attempted in non-decreasing order of assigned time
\* whatever the order of the batch, and one at a time: an attempt starts
\* only after the one before has ended.
SendInTimeOrderOneAtATime ==
    /\ \A k, l \in 1..Len(log) : k < l => log[k].send_dt <= log[l].send_dt
    /\ \A k \in 1..Len(log) : log[k].result = "InProgress" => k = Len(log)
    /\ Cardinality({k \in 1..Len(log) : log[k].result = "InProgress"}) <= 1

\* a batch given latest first (13:00 before 12:59) was sent earliest first
OrderWitness ==
    /\ pc = "save"
    /\ Len(assignments) = 2
    /\ assignments[1].time = <<13, 0>>
    /\ assignments[2].time = <<12, 59>>
    /\ Len(log) = 2
    /\ log[1].name = assignments[2].name

\* C9: no delivery is attempted before its scheduled time: reached early,
\* the scheduler sleeps exactly the time that is left; reached late, it
\* sleeps not at all and attempts the delivery at once.
SendNotBeforeSchedule ==
    /\ \A k \in 1..Len(log) :
          /\ log[k].at >= log[k].send_dt
          /\ log[k].send_dt > log[k].reached =>
                /\ log[k].slept = log[k].send_dt - log[k].reached
                /\ log[k].at >= log[k].reached + log[k].slept
          /\ log[k].send_dt <= log[k].reached =>
                /\ log[k].slept = 0
                /\ log[k].at = log[k].reached
    /\ pc = "sleep" => slept = schedule[pos].send_dt - now /\ slept > 0

\* the first delivery was waited for, the second was already late
ScheduleWitness ==
    /\ Len(log) = 2
    /\ log[1].slept > 0
    /\ log[2].slept = 0
    /\ log[2].at > log[2].send_dt

\* the values of pc inside the selection and dispatch stages
SelectionStages == {"pool", "pick", "assign", "send", "loop", "sleep", "deliver", "sending"}

====
